---------------------------- MODULE Spec2Model ----------------------------
(***************************************************************************)
(* State-machine model of SolanaProvider (src/unnamed/part_000): the       *)
(* request router, the login handshake over window "message" events, the   *)
(* account fetch, the read-only RPC bridge and the authorization flow with *)
(* its setInterval status poll.  JavaScript is run-to-completion: every    *)
(* action below is one macrotask (a call of request(), a dispatched        *)
(* message event, a settled fetch, a timer tick) together with the         *)
(* microtasks (await continuations) it releases.                           *)
(***************************************************************************)
EXTENDS Naturals, Sequences, FiniteSets

(* ------------------------------ bounds -------------------------------- *)

\* number of request() calls made on the provider instance
NReq == 2
\* number of status polls the authorization flows may issue in all
MaxPolls == 4

Req == 1..NReq

(* --------------------------- value universe --------------------------- *)

\* JavaScript values that reach a caller, as records of one shape
Undefined == [t |-> "undefined", s |-> "", l |-> << >>]
Null == [t |-> "null", s |-> "", l |-> << >>]
Str(x) == [t |-> "string", s |-> x, l |-> << >>]
List(xs) == [t |-> "array", s |-> "", l |-> xs]
Err(x) == [t |-> "Error", s |-> x, l |-> << >>]
ErrOf(x, m) == [t |-> "Error", s |-> x, l |-> <<m>>]
Obj(x) == [t |-> "object", s |-> x, l |-> << >>]

Pending == [kind |-> "pending", val |-> Undefined]
Resolved(v) == [kind |-> "resolved", val |-> v]
Rejected(v) == [kind |-> "rejected", val |-> v]

Methods ==
  {"connect", "getAccounts", "convertToProgramWalletTransaction",
   "signAndSendTransaction", "signTransaction", "signAllTransactions",
   "getBalance"}

\* session codes and addresses a challenge response may carry
Codes == {"code1"}
Addrs == {"addrA"}
\* account lists the backend may answer an account fetch with
AccountLists == {<< >>, <<"addrA", "addrB">>}
\* the transaction hash of an approved authorization
Hash == "H"

\* window "message" events: origin, data.type, data.code, data.addr
Origins == {"server", "other"}
MsgTypes == {"FCL::CHALLENGE::RESPONSE", "FCL::CHALLENGE::CANCEL", "OTHER"}
Messages == [origin : Origins, type : MsgTypes, code : Codes, addr : Addrs]

\* parsed bodies the RPC endpoint may answer with: an object with a result
\* field, an object without one (a JSON-RPC error), and the JSON value null
RpcResponses ==
  { [truthy |-> TRUE, has |-> TRUE, result |-> Str("rpcResult"), name |-> "ok"],
    [truthy |-> TRUE, has |-> FALSE, result |-> Undefined, name |-> "errorObject"],
    [truthy |-> FALSE, has |-> FALSE, result |-> Undefined, name |-> "null"] }
NoResponse == [truthy |-> FALSE, has |-> FALSE, result |-> Undefined, name |-> "none"]

(* ------------------------------- state -------------------------------- *)

VARIABLES
  hasWindow,    \* typeof window !== 'undefined'
  connected,    \* this.connected
  code,         \* this.code ("null" for null)
  accounts,     \* this.accounts
  method,       \* payload.method of each request() call ("none": not called)
  pc,           \* where each request() call is suspended
  outcome,      \* the promise request() returned
  logged,       \* console.error ran in the call's catch block
  handshake,    \* the promise connect() returned to the call
  loginFrame,   \* the call's loginFrame: "none", "attached", "detached"
  listener,     \* the call's "message" listener is registered
  fetchCount,   \* account fetches the call has issued
  rpcResponse,  \* the body handleReadRequests received
  authz,        \* the call's authorization flow
  lastMsg,      \* the last "message" event dispatched to a handler
  constructed,  \* the constructor has run
  config,       \* the constructor's argument, constants and environment
  server,       \* this.server
  rpc,          \* this.rpc
  codecPc,      \* the step of the codec round trip
  codecIn,      \* toTransaction's inputs: account keys and signatures
  transaction,  \* transaction.signatures built by toTransaction
  collected     \* the object collectSignatures returned

\* the constructor's and the codec's variables
ctorVars == <<constructed, config, server, rpc>>
codecVars == <<codecPc, codecIn, transaction, collected>>
\* what no step of a request changes
fixed == <<hasWindow, ctorVars, codecVars>>

vars ==
  <<hasWindow, connected, code, accounts, method, pc, outcome, logged,
    handshake, loginFrame, listener, fetchCount, rpcResponse, authz,
    lastMsg, ctorVars, codecVars>>

NoAuthz ==
  [status |-> "NONE", frame |-> "none", timer |-> FALSE, issued |-> 0,
   queued |-> 0, respT |-> 0, servedP |-> 0]

\* no "message" event has been dispatched yet
NoMsg == [origin |-> "none", type |-> "none", code |-> "none", addr |-> "none"]

(* ----------------------------- constructor ---------------------------- *)

\* an option that was not given, a constant that has no entry, an
\* environment variable that is not set: undefined
Absent == "<undefined>"

\* SOL_NET, the supported networks
Nets == {"mainnet-beta", "testnet", "devnet"}

\* what the constructor reads: the net and server options, the entry of
\* SOL_NET_SERVER_MAPPING for the net, and process.env.SERVER
Configs ==
  [net : Nets \cup {Absent, "localnet"},
   server : {Absent, "", "https://explicit"},
   mapping : {Absent, "", "https://default"},
   env : {Absent, "", "https://env"}]

\* JavaScript's a || b on strings and undefined
Truthy(v) == v \notin {Absent, ""}
Or(a, b) == IF Truthy(a) THEN a ELSE b

\* { net = 'mainnet-beta' }: the default of the destructured option
NetOf(c) == IF c.net = Absent THEN "mainnet-beta" ELSE c.net

\* faulty variant: the environment override is consulted before the mapping
ResolveServer_EnvFirst(c) == Or(Or(Or(c.server, c.env), c.mapping), "")

\* server || SOL_NET_SERVER_MAPPING[this.net] || process.env.SERVER || ''
ResolveServer(c) == Or(Or(Or(c.server, c.mapping), c.env), "")

\* `https://api.${net}.solana.com`
RpcUrl(net) == <<"https://api.", net, ".solana.com">>

\* the state of the fields when the class body has initialised them
FieldsInit ==
  /\ connected = FALSE
  /\ code = "null"
  /\ accounts = << >>
  /\ method = [r \in Req |-> "none"]
  /\ pc = [r \in Req |-> "idle"]
  /\ outcome = [r \in Req |-> Pending]
  /\ logged = [r \in Req |-> FALSE]
  /\ handshake = [r \in Req |-> "none"]
  /\ loginFrame = [r \in Req |-> "none"]
  /\ listener = [r \in Req |-> FALSE]
  /\ fetchCount = [r \in Req |-> 0]
  /\ rpcResponse = [r \in Req |-> NoResponse]
  /\ authz = [r \in Req |-> NoAuthz]
  /\ lastMsg = NoMsg

\* no codec call has been made
CodecIdle ==
  /\ codecPc = "idle"
  /\ codecIn = [accountKeys |-> << >>, signatures |-> << >>]
  /\ transaction = << >>
  /\ collected = {}

\* new SolanaProvider(config)
Constructor ==
  /\ constructed = "no"
  /\ IF NetOf(config) \in Nets
     THEN /\ constructed' = "yes"
          /\ rpc' = RpcUrl(NetOf(config))
          /\ server' = ResolveServer(config)
     ELSE \* invariant(SOL_NET.includes(net), 'unsupported net') throws
          /\ constructed' = "threw"
          /\ UNCHANGED <<rpc, server>>
  /\ UNCHANGED <<hasWindow, config, codecVars, connected, code, accounts,
                 method, pc, outcome, logged, handshake, loginFrame, listener,
                 fetchCount, rpcResponse, authz, lastMsg>>

\* the provider the requests are made on: new SolanaProvider({ appId })
\* where the default network has a mapping entry
DefaultConfig ==
  [net |-> Absent, server |-> Absent, mapping |-> "https://default",
   env |-> Absent]

Init ==
  /\ hasWindow \in BOOLEAN
  /\ constructed = "yes"
  /\ config = DefaultConfig
  /\ server = ResolveServer(DefaultConfig)
  /\ rpc = RpcUrl(NetOf(DefaultConfig))
  /\ FieldsInit
  /\ CodecIdle

\* any construction: every combination of options, entry and environment
InitCtor ==
  /\ hasWindow \in BOOLEAN
  /\ constructed = "no"
  /\ config \in Configs
  /\ server = Absent
  /\ rpc = << >>
  /\ FieldsInit
  /\ CodecIdle

NextCtor == Constructor

SpecCtor == InitCtor /\ [][NextCtor]_vars

(* ------------------------- lib/frame.js ------------------------------- *)

\* attachFrame(frame) for the frames of the calls in L
AttachFrame(frames, L) ==
  [r \in Req |-> IF r \in L THEN "attached" ELSE frames[r]]

\* faulty variant: detatchFrame leaves the frame in the document
DetatchFrame_Leaks(frames, L) == frames

\* detatchFrame(frame) for the (attached) frames of the calls in L
DetatchFrame(frames, L) ==
  [r \in Req |-> IF r \in L THEN "detached" ELSE frames[r]]

(* ------------------- lib/addSelfRemovableHandler ---------------------- *)

\* addSelfRemovableHandler('message', handler): call r's handler is registered
AddSelfRemovableHandler(ls, r) == [ls EXCEPT ![r] = TRUE]

\* removeListener(), called by the handlers of the calls in L
RemoveListener(ls, L) == [r \in Req |-> IF r \in L THEN FALSE ELSE ls[r]]

(* --------------------- request(): the dispatch switch ----------------- *)

\* faulty variant: getAccounts ignores the cached list and always fetches
UseCache_Never(a) == FALSE

\* this.accounts.length ? this.accounts : await this.fetchAccounts()
UseCache(a) == Len(a) > 0

Unsupported(m) == m \in {"signTransaction", "signAllTransactions"}

\* the await the switch suspends the call at ("done": it returned or threw)
DispatchPc(m, a) ==
  CASE m = "connect" -> "fetchAccounts"
    [] m = "getAccounts" -> IF UseCache(a) THEN "done" ELSE "fetchAccounts"
    [] m = "convertToProgramWalletTransaction" -> "convert"
    [] m = "signAndSendTransaction" -> "authzPost"
    [] Unsupported(m) -> "done"
    [] OTHER -> "rpc"

\* what the call's promise holds when the switch suspends or leaves
DispatchOutcome(m, a) ==
  CASE m = "getAccounts" /\ UseCache(a) -> Resolved(List(a))
    [] Unsupported(m) -> Rejected(ErrOf("unsupported", m))
    [] OTHER -> Pending

\* the catch block logs what the switch threw
DispatchLogged(m) == Unsupported(m)

\* account fetches the switch issues
DispatchFetches(m, a) == IF DispatchPc(m, a) = "fetchAccounts" THEN 1 ELSE 0

\* the switch run for every call in L with this.accounts = a
Dispatch(L, a) ==
  /\ pc' = [r \in Req |-> IF r \in L THEN DispatchPc(method'[r], a) ELSE pc[r]]
  /\ outcome' = [r \in Req |->
       IF r \in L THEN DispatchOutcome(method'[r], a) ELSE outcome[r]]
  /\ logged' = [r \in Req |->
       IF r \in L THEN DispatchLogged(method'[r]) ELSE logged[r]]
  /\ fetchCount' = [r \in Req |->
       IF r \in L THEN fetchCount[r] + DispatchFetches(method'[r], a)
       ELSE fetchCount[r]]

\* await this.connect() throws: the call rejects outside the try block
ConnectThrows(L, reason) ==
  /\ pc' = [r \in Req |-> IF r \in L THEN "done" ELSE pc[r]]
  /\ outcome' = [r \in Req |-> IF r \in L THEN Rejected(reason) ELSE outcome[r]]
  /\ UNCHANGED <<logged, fetchCount>>

(* ------------------------------ connect() ----------------------------- *)

\* faulty variant: the executor goes on after reject() without a window
Connect_AttachesAnyway(r) ==
  /\ handshake' = [handshake EXCEPT ![r] = IF hasWindow THEN "pending" ELSE "rejected"]
  /\ loginFrame' = AttachFrame(loginFrame, {r})
  /\ listener' = AddSelfRemovableHandler(listener, r)
  /\ IF hasWindow
     THEN /\ pc' = [pc EXCEPT ![r] = "connecting"]
          /\ UNCHANGED <<outcome, logged, fetchCount>>
     ELSE ConnectThrows({r}, Str("Currently only supported in browser"))

\* the promise executor of connect(), run for call r
Connect(r) ==
  IF hasWindow
  THEN /\ handshake' = [handshake EXCEPT ![r] = "pending"]
       /\ loginFrame' = AttachFrame(loginFrame, {r})
       /\ listener' = AddSelfRemovableHandler(listener, r)
       /\ pc' = [pc EXCEPT ![r] = "connecting"]
       /\ UNCHANGED <<outcome, logged, fetchCount>>
  ELSE \* reject(...), then window.location throws inside the executor
       /\ handshake' = [handshake EXCEPT ![r] = "rejected"]
       /\ UNCHANGED <<loginFrame, listener>>
       /\ ConnectThrows({r}, Str("Currently only supported in browser"))

\* faulty variant: the challenge-response branch stores the code, not the flag
ChallengeResponse_NotConnected(e) ==
  [code |-> e.code, connected |-> FALSE, accounts |-> <<e.addr>>]

\* what the challenge-response branch assigns to the provider
ChallengeResponse(e) ==
  [code |-> e.code, connected |-> TRUE, accounts |-> <<e.addr>>]

\* faulty variant: the handler does not compare the origin
Matches_AnyOrigin(e, type) == e.type = type

\* faulty variant: the handler does not compare the message type
Matches_AnyType(e, type) == e.origin = "server"

\* e.origin === this.server, then e.data.type === type
Matches(e, type) == e.origin = "server" /\ e.type = type

\* the calls whose listener the event is dispatched to
Listening == {r \in Req : listener[r]}

\* a "message" event is dispatched on window: every registered handler of
\* connect() runs, and each call it settles resumes after its await.  The
\* handlers of one event assign the same code, flag and accounts, and the
\* switch assigns none of them, so the order the handlers run in is immaterial.
OnMessage(e) ==
  /\ Listening # {}
  /\ lastMsg' = e
  /\ UNCHANGED <<fixed, method, rpcResponse, authz>>
  /\ IF Matches(e, "FCL::CHALLENGE::RESPONSE")
     THEN /\ listener' = RemoveListener(listener, Listening)
          /\ loginFrame' = DetatchFrame(loginFrame, Listening)
          /\ code' = ChallengeResponse(e).code
          /\ connected' = ChallengeResponse(e).connected
          /\ accounts' = ChallengeResponse(e).accounts
          /\ handshake' = [r \in Req |->
               IF r \in Listening THEN "resolved" ELSE handshake[r]]
          /\ Dispatch(Listening, ChallengeResponse(e).accounts)
     ELSE IF Matches(e, "FCL::CHALLENGE::CANCEL")
     THEN /\ listener' = RemoveListener(listener, Listening)
          /\ loginFrame' = DetatchFrame(loginFrame, Listening)
          /\ handshake' = [r \in Req |->
               IF r \in Listening THEN "rejected" ELSE handshake[r]]
          /\ ConnectThrows(Listening, Undefined)
          /\ UNCHANGED <<code, connected, accounts>>
     ELSE UNCHANGED <<code, connected, accounts, pc, outcome, logged,
                      handshake, loginFrame, listener, fetchCount>>

(* ------------------------------ request() ----------------------------- *)

\* faulty variant: the guard is skipped and the switch always runs
NeedsConnect_Never == FALSE

\* faulty variant: the guard starts a handshake on every call
NeedsConnect_Always == TRUE

\* if (!this.connected)
NeedsConnect == ~connected

\* the application calls request({method: m}); calls are numbered in order
Request(r, m) ==
  /\ pc[r] = "idle"
  /\ \A q \in Req : q < r => pc[q] # "idle"
  /\ method' = [method EXCEPT ![r] = m]
  /\ UNCHANGED <<fixed, lastMsg, connected, code, accounts, rpcResponse, authz>>
  /\ IF NeedsConnect
     THEN Connect(r)
     ELSE /\ Dispatch({r}, accounts)
          /\ UNCHANGED <<handshake, loginFrame, listener>>

(* ------------------------ settled fetch() calls ----------------------- *)

\* the call runs inside the try block of request(): what it throws is logged
Caught(r) == method[r] \in Methods

\* the call leaves request() with promise value o
Settle(r, o, log) ==
  /\ pc' = [pc EXCEPT ![r] = "done"]
  /\ outcome' = [outcome EXCEPT ![r] = o]
  /\ logged' = [logged EXCEPT ![r] = log]

\* fetchAccounts(): the backend answers { accounts: list }
FetchAccounts(r, list) ==
  /\ pc[r] = "fetchAccounts"
  /\ accounts' = list
  /\ Settle(r, Resolved(List(list)), logged[r])
  /\ UNCHANGED <<fixed, lastMsg, connected, code, method, handshake, loginFrame,
                 listener, fetchCount, rpcResponse, authz>>

\* handleConvertTransaction(): the backend answers the converted message
HandleConvertTransaction(r) ==
  /\ pc[r] = "convert"
  /\ Settle(r, Resolved(Str("walletTx")), logged[r])
  /\ UNCHANGED <<fixed, lastMsg, connected, code, accounts, method, handshake,
                 loginFrame, listener, fetchCount, rpcResponse, authz>>

\* the whole parsed response, as a caller would see it
FullResponse(resp) == IF resp.truthy THEN Obj(resp.name) ELSE Null

\* faulty variant: a response without a result field is returned whole
ReadResult_FullResponse(resp) ==
  IF resp.has THEN resp.result ELSE FullResponse(resp)

\* if (response) return response.result; return result;
ReadResult(resp) ==
  IF resp.truthy
  THEN (IF resp.has THEN resp.result ELSE Undefined)
  ELSE Null

\* handleReadRequests(): the RPC endpoint answers resp
HandleReadRequests(r, resp) ==
  /\ pc[r] = "rpc"
  /\ rpcResponse' = [rpcResponse EXCEPT ![r] = resp]
  /\ Settle(r, Resolved(ReadResult(resp)), logged[r])
  /\ UNCHANGED <<fixed, lastMsg, connected, code, accounts, method, handshake,
                 loginFrame, listener, fetchCount, authz>>

\* a fetch() awaited inside the try block rejects: logged and re-thrown
TransportError == Err("TransportError")

FetchFails(r) ==
  /\ pc[r] \in {"fetchAccounts", "convert", "authzPost", "rpc"}
  /\ Settle(r, Rejected(TransportError), Caught(r))
  /\ UNCHANGED <<fixed, lastMsg, connected, code, accounts, method, handshake,
                 loginFrame, listener, fetchCount, rpcResponse, authz>>

(* ------------------- handleSignAndSendTransaction() ------------------- *)

\* the authz POST answers { authorizationId }: the backend holds a PENDING
\* authorization; then the window check, the overlay and setInterval
AuthzCreated(r) ==
  /\ pc[r] = "authzPost"
  /\ IF hasWindow
     THEN /\ authz' = [authz EXCEPT ![r].status = "PENDING",
                                    ![r].frame = "attached",
                                    ![r].timer = TRUE]
          /\ pc' = [pc EXCEPT ![r] = "polling"]
          /\ UNCHANGED <<outcome, logged>>
     ELSE /\ authz' = [authz EXCEPT ![r].status = "PENDING"]
          /\ Settle(r, Rejected(Err("Currently only supported in browser")),
                    Caught(r))
  /\ UNCHANGED <<fixed, lastMsg, connected, code, accounts, method, handshake,
                 loginFrame, listener, fetchCount, rpcResponse>>

\* the user approves or declines in the overlay: the status leaves PENDING
UserDecides(r, s) ==
  /\ authz[r].status = "PENDING"
  /\ authz[r].frame = "attached"
  /\ authz' = [authz EXCEPT ![r].status = s]
  /\ UNCHANGED <<fixed, lastMsg, connected, code, accounts, method, pc, outcome,
                 logged, handshake, loginFrame, listener, fetchCount,
                 rpcResponse>>

\* status polls issued so far by the flows of the calls 1..n
RECURSIVE PollsIssued(_)
PollsIssued(n) == IF n = 0 THEN 0 ELSE authz[n].issued + PollsIssued(n - 1)

\* the interval fires: pollAuthzStatus() issues a GET
Tick(r) ==
  /\ authz[r].timer
  /\ PollsIssued(NReq) < MaxPolls
  /\ authz' = [authz EXCEPT ![r].issued = @ + 1, ![r].queued = @ + 1]
  /\ UNCHANGED <<fixed, lastMsg, connected, code, accounts, method, pc, outcome,
                 logged, handshake, loginFrame, listener, fetchCount,
                 rpcResponse>>

\* the backend answers one GET with the authorization's current status.  A
\* PENDING answer takes neither branch of the continuation (lines 248-260),
\* so its delivery changes nothing and is not kept in flight.
ServePoll(r) ==
  /\ authz[r].queued > 0
  /\ authz' =
       IF authz[r].status = "PENDING"
       THEN [authz EXCEPT ![r].queued = @ - 1, ![r].servedP = @ + 1]
       ELSE [authz EXCEPT ![r].queued = @ - 1, ![r].respT = @ + 1]
  /\ UNCHANGED <<fixed, lastMsg, connected, code, accounts, method, pc, outcome,
                 logged, handshake, loginFrame, listener, fetchCount,
                 rpcResponse>>

\* one GET rejects: the chain started by the interval callback rejects and
\* nothing handles it
PollFails(r) ==
  /\ authz[r].queued > 0
  /\ authz' = [authz EXCEPT ![r].queued = @ - 1]
  /\ UNCHANGED <<fixed, lastMsg, connected, code, accounts, method, pc, outcome,
                 logged, handshake, loginFrame, listener, fetchCount,
                 rpcResponse>>

\* faulty variant: the terminal branch detaches the overlay, not the timer
Teardown_KeepsTimer(a) == [a EXCEPT !.frame = "detached"]

\* detatchFrame(authzFrame); clearInterval(pollingId) of a terminal branch
Teardown(a) == [a EXCEPT !.frame = "detached", !.timer = FALSE]

\* resolve(transactionHash) / reject('Transaction Canceled')
TerminalOutcome(status) ==
  IF status = "APPROVED" THEN Resolved(Str(Hash))
  ELSE Rejected(Str("Transaction Canceled"))

\* the continuation of a poll that was answered APPROVED or DECLINED
PollTerminal(r) ==
  /\ authz[r].respT > 0
  /\ IF authz[r].frame = "attached"
     THEN /\ authz' = [authz EXCEPT ![r] = Teardown([@ EXCEPT !.respT = @ - 1])]
          /\ Settle(r, TerminalOutcome(authz[r].status), logged[r])
     ELSE \* frame.parentNode is null: detatchFrame throws a TypeError
          /\ authz' = [authz EXCEPT ![r].respT = @ - 1]
          /\ UNCHANGED <<pc, outcome, logged>>
  /\ UNCHANGED <<fixed, lastMsg, connected, code, accounts, method, handshake,
                 loginFrame, listener, fetchCount, rpcResponse>>

(* --------------------------- specification ---------------------------- *)

Next ==
  \/ \E r \in Req, m \in Methods : Request(r, m)
  \/ \E e \in Messages : OnMessage(e)
  \/ \E r \in Req, list \in AccountLists : FetchAccounts(r, list)
  \/ \E r \in Req : HandleConvertTransaction(r)
  \/ \E r \in Req, resp \in RpcResponses : HandleReadRequests(r, resp)
  \/ \E r \in Req : FetchFails(r)
  \/ \E r \in Req : AuthzCreated(r)
  \/ \E r \in Req, s \in {"APPROVED", "DECLINED"} : UserDecides(r, s)
  \/ \E r \in Req : Tick(r)
  \/ \E r \in Req : ServePoll(r)
  \/ \E r \in Req : PollFails(r)
  \/ \E r \in Req : PollTerminal(r)

Spec == Init /\ [][Next]_vars

(* ------------- handleSignAndSendTransaction() called directly --------- *)

\* the application calls the public method handleSignAndSendTransaction(payload)
\* of the provider itself, not through request(): no connection guard and no
\* catch block; the call is suspended at the authz POST
HandleSignAndSendTransaction(r) ==
  /\ pc[r] = "idle"
  /\ \A q \in Req : q < r => pc[q] # "idle"
  /\ method' = [method EXCEPT ![r] = "handleSignAndSendTransaction"]
  /\ pc' = [pc EXCEPT ![r] = "authzPost"]
  /\ UNCHANGED <<fixed, lastMsg, connected, code, accounts, outcome, logged,
                 handshake, loginFrame, listener, fetchCount, rpcResponse,
                 authz>>

NextFlow ==
  \/ Next
  \/ \E r \in Req : HandleSignAndSendTransaction(r)

SpecFlow == Init /\ [][NextFlow]_vars

(* ------------------------- transaction codec -------------------------- *)

\* A base58 string is the sequence of its digits' values (the character '1'
\* is the digit 0); a byte string is a sequence of 0..255; a hex string is
\* the sequence of its digits' values.  An account key is named by its
\* base58 address, which is what publicKey.toBase58() returns.
Keys == {"A", "B", "C"}

\* the longest base58 string the model writes down
DefaultKeyLen == 32

\* PublicKey.default.toBase58(): thirty-two '1' characters
Default58 == [i \in 1..DefaultKeyLen |-> 0]

\* the signatures toTransaction may be given
Sigs58 == {Default58, <<0>>, <<1, 2>>, <<5, 0>>}

\* the number a base58 string denotes
RECURSIVE Base58Value(_)
Base58Value(str) ==
  IF Len(str) = 0 THEN 0
  ELSE Base58Value(SubSeq(str, 1, Len(str) - 1)) * 58 + str[Len(str)]

\* the big-endian bytes of a number, without leading zero bytes
RECURSIVE BytesOf(_)
BytesOf(n) == IF n = 0 THEN << >> ELSE Append(BytesOf(n \div 256), n % 256)

\* the number of leading '1' characters
RECURSIVE LeadingOnes(_)
LeadingOnes(str) ==
  IF Len(str) = 0 \/ str[1] # 0 THEN 0 ELSE 1 + LeadingOnes(Tail(str))

\* bs58.decode(str): a zero byte for every leading '1', then the number
Bs58Decode(str) ==
  [i \in 1..LeadingOnes(str) |-> 0] \o BytesOf(Base58Value(str))

\* buffer.toString('hex')
RECURSIVE ToHex(_)
ToHex(bytes) ==
  IF Len(bytes) = 0 THEN << >>
  ELSE <<bytes[1] \div 16, bytes[1] % 16>> \o ToHex(Tail(bytes))

\* a signature slot's value: null, or the decoded bytes
NullSig == [null |-> TRUE, bytes |-> << >>]

\* faulty variant: the empty signature is decoded like any other
DecodeSignature_NoNull(sig) == [null |-> FALSE, bytes |-> Bs58Decode(sig)]

\* signature == PublicKey.default.toBase58() ? null : bs58.decode(signature)
DecodeSignature(sig) ==
  IF sig = Default58 THEN NullSig
  ELSE [null |-> FALSE, bytes |-> Bs58Decode(sig)]

\* toTransaction(raw, signatures): the signatures it pushes, index-aligned
\* with message.accountKeys
ToTransactionSignatures(accountKeys, signatures) ==
  [i \in 1..Len(signatures) |->
     [signature |-> DecodeSignature(signatures[i]),
      publicKey |-> accountKeys[i]]]

\* acc[key] = value on an object held as a set of <<key, value>> pairs
Put(acc, key, value) == {p \in acc : p[1] # key} \cup {<<key, value>>}

\* collectSignatures(transaction): the reduce over transaction.signatures
RECURSIVE CollectFrom(_, _)
CollectFrom(slots, acc) ==
  IF Len(slots) = 0 THEN acc
  ELSE CollectFrom(Tail(slots),
         IF ~slots[1].signature.null
         THEN Put(acc, slots[1].publicKey, ToHex(slots[1].signature.bytes))
         ELSE acc)

\* number of account keys of a message
MaxKeys == 2

\* sequences of distinct keys, and of signatures, up to a length
KeySeqs(n) ==
  UNION {{ks \in [1..k -> Keys] : \A i, j \in 1..k : i # j => ks[i] # ks[j]} :
         k \in 0..n}
SigSeqs(n) == UNION {[1..k -> Sigs58] : k \in 0..n}

\* a decoded message's account keys with at most one signature per key
CodecInputs ==
  {in \in [accountKeys : KeySeqs(MaxKeys), signatures : SigSeqs(MaxKeys)] :
     Len(in.signatures) <= Len(in.accountKeys)}

\* toTransaction(raw, signatures) is called
ToTransaction ==
  /\ codecPc = "start"
  /\ codecPc' = "decoded"
  /\ transaction' =
       ToTransactionSignatures(codecIn.accountKeys, codecIn.signatures)
  /\ UNCHANGED <<hasWindow, ctorVars, codecIn, collected, connected, code,
                 accounts, method, pc, outcome, logged, handshake, loginFrame,
                 listener, fetchCount, rpcResponse, authz, lastMsg>>

\* collectSignatures(transaction) is called on the result
CollectSignatures ==
  /\ codecPc = "decoded"
  /\ codecPc' = "encoded"
  /\ collected' = CollectFrom(transaction, {})
  /\ UNCHANGED <<hasWindow, ctorVars, codecIn, transaction, connected, code,
                 accounts, method, pc, outcome, logged, handshake, loginFrame,
                 listener, fetchCount, rpcResponse, authz, lastMsg>>

\* a round trip of the codec on any input
InitCodec ==
  /\ hasWindow = TRUE
  /\ constructed = "yes"
  /\ config = DefaultConfig
  /\ server = ResolveServer(DefaultConfig)
  /\ rpc = RpcUrl(NetOf(DefaultConfig))
  /\ FieldsInit
  /\ codecPc = "start"
  /\ codecIn \in CodecInputs
  /\ transaction = << >>
  /\ collected = {}

NextCodec ==
  \/ ToTransaction
  \/ CollectSignatures

SpecCodec == InitCodec /\ [][NextCodec]_vars

(* ------------------------------ claims -------------------------------- *)

\* C1: calls of request() issued on a not-yet-connected provider before any
\* handshake message arrives share one Handshake Flow: while calls wait for
\* the handshake, exactly one login overlay is attached and exactly one
\* message listener is registered.
C1_OneHandshakeForConcurrentCalls ==
  (\E r \in Req : pc[r] = "connecting") =>
    /\ Cardinality({r \in Req : loginFrame[r] = "attached"}) = 1
    /\ Cardinality({r \in Req : listener[r]}) = 1

\* the backend answered the flow's successive polls PENDING, PENDING, APPROVED
AnsweredPendingPendingApproved(r) ==
  /\ authz[r].servedP = 2
  /\ authz[r].status = "APPROVED"

\* C2: when the successive status polls are answered PENDING, PENDING,
\* APPROVED (hash H), the flow resolves with H after exactly 3 polls have
\* been issued, with the poll timer inactive and the overlay detached.
C2_ResolvesAfterExactlyThreePolls ==
  \A r \in Req :
    (AnsweredPendingPendingApproved(r) /\ outcome[r].kind # "pending") =>
      /\ outcome[r] = Resolved(Str(Hash))
      /\ authz[r].issued = 3
      /\ ~authz[r].timer
      /\ authz[r].frame = "detached"

\* the step runs the continuation of a poll answered APPROVED or DECLINED
TerminalPollDelivered(r) == authz'[r].respT < authz[r].respT

\* C3: when a status poll returns DECLINED, the flow rejects with the
\* 'Transaction Canceled' error, and in the resulting state the poll timer
\* is cancelled and the authorization overlay is detached.
C3_DeclinedRejectsAndReleases ==
  [][\A r \in Req :
       (TerminalPollDelivered(r) /\ authz[r].status = "DECLINED") =>
         /\ outcome'[r] = Rejected(Str("Transaction Canceled"))
         /\ ~authz'[r].timer
         /\ authz'[r].frame = "detached"]_vars

\* a declined flow has rejected its call and released timer and overlay
C3_Witness ==
  \E r \in Req :
    /\ authz[r].status = "DECLINED"
    /\ authz[r].issued > 0
    /\ outcome[r] = Rejected(Str("Transaction Canceled"))
    /\ ~authz[r].timer
    /\ authz[r].frame = "detached"

\* C4: no handshake is settled (resolved or rejected) while its login
\* overlay is still attached or its message listener still registered.
C4_SettledHandshakeReleased ==
  \A r \in Req :
    handshake[r] \in {"resolved", "rejected"} =>
      /\ loginFrame[r] # "attached"
      /\ ~listener[r]

\* one handshake was cancelled and a later one approved, both overlays gone
C4_Witness ==
  \E r, q \in Req :
    /\ handshake[r] = "rejected" /\ loginFrame[r] = "detached"
    /\ handshake[q] = "resolved" /\ loginFrame[q] = "detached"

\* the step is a status poll of call r failing in transport
PollFailedStep(r) ==
  /\ authz'[r].queued < authz[r].queued
  /\ authz'[r].servedP = authz[r].servedP
  /\ authz'[r].respT = authz[r].respT

\* C5: a failed step of a request's flow rejects the request with that
\* error: a cancelled handshake rejects the call, and a status poll that
\* fails in transport rejects the call with the transport error.
C5_FailedStepRejects ==
  [][\A r \in Req :
       /\ (handshake[r] = "pending" /\ handshake'[r] = "rejected") =>
            outcome'[r].kind = "rejected"
       /\ PollFailedStep(r) => outcome'[r] = Rejected(TransportError)]_vars

\* C6: in a browser, a settled signTransaction / signAllTransactions request
\* is rejected with the unsupported-operation error, whatever the connection
\* state was and however the ensuing handshake ended.
C6_SignAlwaysUnsupported ==
  \A r \in Req :
    (hasWindow /\ Unsupported(method[r]) /\ outcome[r].kind # "pending") =>
      outcome[r] = Rejected(ErrOf("unsupported", method[r]))

\* the step takes call r from the connection guard into the switch
DispatchStep(r) ==
  /\ pc[r] \in {"idle", "connecting"}
  /\ pc'[r] \notin {"idle", "connecting"}
  /\ handshake'[r] # "rejected"

\* C7: getAccounts returns the cached accounts and issues no network call
\* when accounts is non-empty; when it is empty it issues exactly one account
\* fetch, stores the fetched list in accounts and returns it.
C7_GetAccountsCache ==
  [][\A r \in Req :
       method'[r] = "getAccounts" =>
         /\ DispatchStep(r) =>
              IF Len(accounts') > 0
              THEN /\ outcome'[r] = Resolved(List(accounts'))
                   /\ pc'[r] = "done"
                   /\ fetchCount'[r] = 0
              ELSE /\ outcome'[r] = Pending
                   /\ pc'[r] = "fetchAccounts"
                   /\ fetchCount'[r] = 1
         /\ fetchCount'[r] <= 1
         /\ (pc[r] = "fetchAccounts" /\ outcome'[r].kind = "resolved") =>
              /\ accounts' \in AccountLists
              /\ outcome'[r] = Resolved(List(accounts'))]_vars

\* getAccounts found the cache empty, fetched once, stored and returned
C7_Witness ==
  \E r \in Req :
    /\ method[r] = "getAccounts"
    /\ fetchCount[r] = 1
    /\ accounts = <<"addrA", "addrB">>
    /\ outcome[r] = Resolved(List(accounts))

C9_CodeImpliesConnected == code # "null" => connected

\* a handshake was approved: the session code is set
C9_Witness == code = "code1" /\ connected

\* C10: at most one authorization overlay is attached at any time.
C10_OneAuthzOverlay ==
  Cardinality({r \in Req : authz[r].frame = "attached"}) <= 1

Ignored(e) ==
  \/ e.origin # "server"
  \/ e.type \notin {"FCL::CHALLENGE::RESPONSE", "FCL::CHALLENGE::CANCEL"}

\* C12: during a pending handshake, a message from another origin or of an
\* unrecognised type changes nothing: listeners, overlays, promises,
\* connected, session code and accounts are as before.
C12_IgnoredMessageChangesNothing ==
  [][(lastMsg' # lastMsg /\ Ignored(lastMsg')) =>
       UNCHANGED <<listener, loginFrame, handshake, outcome, pc, connected,
                   code, accounts>>]_vars

\* an ignored message was dispatched and the handshake is still pending
C12_Witness ==
  /\ lastMsg \in Messages
  /\ Ignored(lastMsg)
  /\ \E r \in Req :
       /\ listener[r]
       /\ loginFrame[r] = "attached"
       /\ handshake[r] = "pending"
       /\ outcome[r] = Pending

\* a configuration value is present when it is given and not empty
Present(v) == v # Absent /\ v # ""

\* the first present value in the claimed order, the empty string if none
FirstPresent(c) ==
  IF Present(c.server) THEN c.server
  ELSE IF Present(c.mapping) THEN c.mapping
  ELSE IF Present(c.env) THEN c.env
  ELSE ""

\* C13: for every supported network and every combination of explicit server
\* option, per-network mapping entry and environment override, the
\* constructed provider's server is the first present value in the order
\* explicit override, per-network default, environment override, "".
C13_ServerPrecedence ==
  constructed = "yes" =>
    /\ NetOf(config) \in Nets
    /\ server = FirstPresent(config)

\* only the environment override is present, and it is the server
C13_Witness ==
  /\ constructed = "yes"
  /\ config.net = "testnet"
  /\ config.server = Absent
  /\ config.mapping = Absent
  /\ config.env = "https://env"
  /\ server = "https://env"

\* the slots of the round trip's input: index, key and supplied signature
SlotIndexes == 1..Len(codecIn.signatures)

\* the entries collected for a key
EntriesFor(key) == {p \in collected : p[1] = key}

\* C14 as stated: after decode and encode, the key of every slot whose
\* signature is not the empty value maps to exactly that signature, the key
\* of a slot with the empty value has no entry, and no other key has one.
C14_RoundTripSameSignature ==
  codecPc = "encoded" =>
    /\ \A i \in SlotIndexes :
         EntriesFor(codecIn.accountKeys[i]) =
           IF codecIn.signatures[i] # Default58
           THEN {<<codecIn.accountKeys[i], codecIn.signatures[i]>>}
           ELSE {}
    /\ \A p \in collected :
         \E i \in SlotIndexes : codecIn.accountKeys[i] = p[1]

\* C14 amended: after decode and encode, the key of every slot whose
\* signature is not the empty value maps to exactly the hex encoding of the
\* bytes that signature (a base58 string) decodes to, the key of a slot with
\* the empty value has no entry, and no other key has one.
C14_RoundTripHexOfDecoded ==
  codecPc = "encoded" =>
    /\ \A i \in SlotIndexes :
         EntriesFor(codecIn.accountKeys[i]) =
           IF codecIn.signatures[i] # Default58
           THEN {<<codecIn.accountKeys[i],
                   ToHex(Bs58Decode(codecIn.signatures[i]))>>}
           ELSE {}
    /\ \A p \in collected :
         \E i \in SlotIndexes : codecIn.accountKeys[i] = p[1]

\* key A signed, key B with the empty value: only A's entry comes back, as
\* the hex digits 3c of the byte the base58 string "23" decodes to
C14_Witness ==
  /\ codecPc = "encoded"
  /\ codecIn.accountKeys = <<"A", "B">>
  /\ codecIn.signatures = <<(<<1, 2>>), Default58>>
  /\ collected = {<<"A", <<3, 12>>>>}

\* C15: the terminal transition of the authorization flow is idempotent:
\* whatever the interleaving of ticks and poll answers, the overlay is
\* detached at most once, the promise is settled at most once, and no
\* continuation of a terminal poll answer runs its teardown on an overlay
\* that is already detached.
C15_TerminalTransitionIdempotent ==
  [][\A r \in Req :
       TerminalPollDelivered(r) =>
         /\ authz[r].frame = "attached"
         /\ outcome[r].kind = "pending"]_vars

\* C16: every error request() rejects with, on any path, the rejected
\* handshake of the connection guard included, has been logged by the
\* catch block of request().
C16_EveryRejectionLogged ==
  hasWindow => \A r \in Req : outcome[r].kind = "rejected" => logged[r]

\* the step resolves a pending handshake on a challenge response of the server
HandshakeSucceeds ==
  /\ \E r \in Req : handshake[r] = "pending" /\ handshake'[r] = "resolved"
  /\ lastMsg'.origin = "server"
  /\ lastMsg'.type = "FCL::CHALLENGE::RESPONSE"

\* the step delivers a cancel message of the server to a waiting handshake
HandshakeCancelled ==
  /\ \E r \in Req : handshake[r] = "pending" /\ listener[r] /\ ~listener'[r]
  /\ lastMsg'.origin = "server"
  /\ lastMsg'.type = "FCL::CHALLENGE::CANCEL"

\* C17: connected and the session code are changed only by a successful
\* handshake, which sets the flag and stores a code; a cancelled handshake
\* leaves connected false, the code null and the accounts unchanged; no
\* dispatch path of request() modifies the flag or the code.
C17_OnlyHandshakeSetsSession ==
  [][/\ (connected' # connected \/ code' # code) =>
          (HandshakeSucceeds /\ connected' /\ code' # "null")
     /\ HandshakeCancelled =>
          (~connected' /\ code' = "null" /\ accounts' = accounts
           /\ \E r \in Req : handshake'[r] = "rejected")]_vars

\* a handshake was cancelled by the server's cancel message: no session
C17_Witness ==
  /\ \E r \in Req : handshake[r] = "rejected" /\ loginFrame[r] = "detached"
  /\ lastMsg.type = "FCL::CHALLENGE::CANCEL"
  /\ ~connected
  /\ code = "null"

\* C18: once connected, no request() of any method starts another
\* handshake: no login overlay is created or attached and no handshake
\* listener is registered.
C18_NoHandshakeOnceConnected ==
  [][connected =>
       \A r \in Req :
         /\ handshake[r] = "none" => handshake'[r] = "none"
         /\ loginFrame[r] = "none" => loginFrame'[r] = "none"
         /\ ~listener[r] => ~listener'[r]]_vars

\* a call made after the handshake succeeded was dispatched without one
C18_Witness ==
  \E r \in Req :
    /\ connected
    /\ pc[r] # "idle"
    /\ handshake[r] = "none"
    /\ loginFrame[r] = "none"

\* C19: without a rendering surface the handshake fails with the
\* environment error and has no other effect: no overlay is created or
\* attached, no message listener is registered, and connected, the session
\* code and the accounts keep their values.
C19_NoWindowHandshakeHasNoEffect ==
  ~hasWindow =>
    /\ \A r \in Req :
         /\ loginFrame[r] = "none"
         /\ ~listener[r]
         /\ pc[r] # "idle" =>
              /\ handshake[r] = "rejected"
              /\ outcome[r] = Rejected(Str("Currently only supported in browser"))
    /\ ~connected
    /\ code = "null"
    /\ accounts = << >>

\* every call made without a window was rejected by its handshake
C19_Witness ==
  /\ ~hasWindow
  /\ \A r \in Req :
       /\ handshake[r] = "rejected"
       /\ outcome[r] = Rejected(Str("Currently only supported in browser"))

\* call r ran the authorization flow and the flow failed at its initiation:
\* the authz POST failed, or there was no window
InitiationFailed(r) ==
  /\ method[r] \in {"signAndSendTransaction", "handleSignAndSendTransaction"}
  /\ outcome[r] \in {Rejected(TransportError),
                     Rejected(Err("Currently only supported in browser"))}

\* C20: an authorization flow that cannot get past its initiation (the authz
\* POST fails, or there is no rendering surface) rejects with no
\* authorization overlay attached and no poll timer started, and without a
\* rendering surface no authorization has been created on the backend.
C20_FailedInitiationLeavesNothing ==
  \A r \in Req :
    InitiationFailed(r) =>
      /\ authz[r].frame = "none"
      /\ ~authz[r].timer
      /\ ~hasWindow => authz[r].status = "NONE"

=============================================================================
